---- MODULE Spec2Model ----
(***************************************************************************)
(* A model of internship_bot.py: the aggregation pipeline                  *)
(* (fetch_internships, search_internships, format_internship_embed,        *)
(* fetch_linkedin_jobs), the argument parsing of the commands, the         *)
(* periodic delivery loop, the command handlers and the rate limiter.      *)
(*                                                                         *)
(* Python strings are sequences of one-character strings, so that split,   *)
(* lower, isdigit, int, join, slicing and the substring test are computed  *)
(* and not assumed.  Python dicts are functions whose domain is the set    *)
(* of keys present.                                                        *)
(***************************************************************************)
EXTENDS Integers, Sequences, FiniteSets, TLC

VARIABLES
    env,            \* os.getenv: which of the three configuration values are set
    responses,      \* what the four endpoints of fetch_internships answer
    linkedin_response, \* what the search-jobs-v2 endpoint answers
    call,           \* the function call under way (the function specifications)
    ret,            \* what that call returned or raised
    process,        \* the __main__ block: "init", "running" or "exited"
    stdout,         \* the startup messages printed by the __main__ block
    loop_running,   \* check_internships.is_running()
    loops,          \* how many tasks check_internships.start() has launched
    ready_count,    \* how many times on_ready fired
    tasks,          \* the handler coroutines: the loop's iterations and the commands
    clock,          \* the limiter's clock, in seconds
    limiter,        \* the two RateLimitDecorator objects: last_reset, num_calls
    started         \* start times of the admitted source-client calls still in a window

vars == <<env, responses, linkedin_response, call, ret, process, stdout,
          loop_running, loops, ready_count, tasks, clock, limiter, started>>

botVars == <<env, responses, linkedin_response, process, stdout,
             loop_running, loops, ready_count, tasks>>
rateVars == <<clock, limiter, started>>
fnVars == <<call, ret>>

-----------------------------------------------------------------------------
(* Python strings *)

None == <<"<None>">>

Truthy(v) == v # None /\ v # <<>>

Digits == <<"0", "1", "2", "3", "4", "5", "6", "7", "8", "9">>

UpperChars == <<"A", "B", "C", "D", "E", "F", "G", "H", "I", "J", "K", "L", "M",
                "N", "O", "P", "Q", "R", "S", "T", "U", "V", "W", "X", "Y", "Z">>

LowerChars == <<"a", "b", "c", "d", "e", "f", "g", "h", "i", "j", "k", "l", "m",
                "n", "o", "p", "q", "r", "s", "t", "u", "v", "w", "x", "y", "z">>

\* the characters of the model in code-point order
CodePoints == <<" ", "\"", "'", "-", ".">> \o Digits \o <<":">> \o UpperChars \o LowerChars

ord(c) == CHOOSE i \in 1..Len(CodePoints) : CodePoints[i] = c

IsDigitChar(c) == \E i \in 1..Len(Digits) : Digits[i] = c

DigitVal(c) == (CHOOSE i \in 1..Len(Digits) : Digits[i] = c) - 1

isdigit(s) == Len(s) > 0 /\ \A i \in 1..Len(s) : IsDigitChar(s[i])

RECURSIVE int(_)
int(s) == IF Len(s) = 0 THEN 0
          ELSE 10 * int(SubSeq(s, 1, Len(s) - 1)) + DigitVal(s[Len(s)])

lower_char(c) ==
    IF \E i \in 1..Len(UpperChars) : UpperChars[i] = c
    THEN LowerChars[CHOOSE i \in 1..Len(UpperChars) : UpperChars[i] = c]
    ELSE c

lower(s) == [i \in 1..Len(s) |-> lower_char(s[i])]

\* sub in s
contains(sub, s) ==
    \E i \in 0..(Len(s) - Len(sub)) : SubSeq(s, i + 1, i + Len(sub)) = sub

\* s[:n]; a negative n counts from the end
slice(s, n) ==
    IF n >= 0 THEN SubSeq(s, 1, IF n < Len(s) THEN n ELSE Len(s))
    ELSE SubSeq(s, 1, IF Len(s) + n > 0 THEN Len(s) + n ELSE 0)

\* a < b on strings: lexicographic by code point
RECURSIVE str_less(_, _)
str_less(a, b) ==
    IF Len(b) = 0 THEN FALSE
    ELSE IF Len(a) = 0 THEN TRUE
    ELSE IF a[1] = b[1] THEN str_less(Tail(a), Tail(b))
    ELSE ord(a[1]) < ord(b[1])

\* s.split(): the maximal runs of non-blank characters
RECURSIVE split_from(_, _, _)
split_from(s, i, word) ==
    IF i > Len(s) THEN (IF word = <<>> THEN <<>> ELSE <<word>>)
    ELSE IF s[i] = " "
         THEN (IF word = <<>> THEN <<>> ELSE <<word>>) \o split_from(s, i + 1, <<>>)
         ELSE split_from(s, i + 1, Append(word, s[i]))

split(s) == split_from(s, 1, <<>>)

\* ' '.join(parts)
RECURSIVE join(_)
join(parts) ==
    IF Len(parts) = 0 THEN <<>>
    ELSE IF Len(parts) = 1 THEN parts[1]
    ELSE parts[1] \o <<" ">> \o join(Tail(parts))

-----------------------------------------------------------------------------
(* Python dicts and lists *)

\* {}
EmptyDict == [x \in {} |-> x]

\* d.get(k, default)
get(d, k, default) == IF k \in DOMAIN d THEN d[k] ELSE default

\* d[k] = v
setitem(d, k, v) == [x \in (DOMAIN d) \cup {k} |-> IF x = k THEN v ELSE d[x]]

\* the sort key of fetch_internships and search_internships
posted_key(x) == get(x, "postedDate", get(x, "posted_date", <<>>))

\* the sort key of check_internships and recent
posted_date_key(x) == get(x, "posted_date", <<>>)

posted_keys(data) == [i \in 1..Len(data) |-> posted_key(data[i])]

posted_date_keys(data) == [i \in 1..Len(data) |-> posted_date_key(data[i])]

\* list.sort(key=..., reverse=True) is stable: a record comes after the records
\* with a greater key and after the earlier records with an equal key; keys[i] is
\* the key of data[i]
sort_desc(data, keys) ==
    LET n == Len(data)
        before == [i \in 1..n |->
                      Cardinality({j \in 1..n : \/ str_less(keys[i], keys[j])
                                                \/ keys[j] = keys[i] /\ j < i})]
    IN  [p \in 1..n |-> data[CHOOSE i \in 1..n : before[i] = p - 1]]

-----------------------------------------------------------------------------
(* The strings of the model *)

sAcme == <<"A", "c", "m", "e">>
sGlobex == <<"G", "l", "o", "b", "e", "x">>
sIntern == <<"I", "n", "t", "e", "r", "n">>
sDataIntern == <<"D", "a", "t", "a", " ", "I", "n", "t", "e", "r", "n">>
sBoston == <<"B", "o", "s", "t", "o", "n">>
sRemote == <<"R", "e", "m", "o", "t", "e">>
sRemoteIntern == <<"R", "e", "m", "o", "t", "e", " ", "I", "n", "t", "e", "r", "n">>
sUrl1 == <<"u", "1">>
sUrl2 == <<"u", "2">>
sUrl3 == <<"u", "3">>
sUrl4 == <<"u", "4">>
sDate1 == <<"2", "0", "2", "4", "-", "0", "1">>
sDate2 == <<"2", "0", "2", "4", "-", "0", "2">>
sDate3 == <<"2", "0", "2", "4", "-", "0", "3">>
sInternshipAPI == <<"I", "n", "t", "e", "r", "n", "s", "h", "i", "p", " ", "A", "P", "I">>
sLinkedIn == <<"L", "i", "n", "k", "e", "d", "I", "n">>
sEllipsis == <<".", ".", ".">>
sNoTitle == <<"N", "o", " ", "T", "i", "t", "l", "e">>
sUnknownCompany == <<"U", "n", "k", "n", "o", "w", "n", " ", "C", "o", "m", "p", "a", "n", "y">>
sLocationNotSpecified == <<"L", "o", "c", "a", "t", "i", "o", "n", " ", "n", "o", "t", " ",
                           "s", "p", "e", "c", "i", "f", "i", "e", "d">>
sDateNotSpecified == <<"D", "a", "t", "e", " ", "n", "o", "t", " ", "s", "p", "e", "c",
                       "i", "f", "i", "e", "d">>
sUnknownSource == <<"U", "n", "k", "n", "o", "w", "n", " ", "S", "o", "u", "r", "c", "e">>

-----------------------------------------------------------------------------
(* HTTP: what requests.get gives for one endpoint.  err is a transport     *)
(* error (requests.get raises); json.kind is "invalid" when response.json()*)
(* raises, "list" or "dict" for a body of that type, "other" for any other *)
(* JSON value; json.val is the list or the dict.                           *)

JsonInvalid == [kind |-> "invalid", val |-> <<>>]
JsonOther == [kind |-> "other", val |-> <<>>]
JsonList(items) == [kind |-> "list", val |-> items]
JsonDict(d) == [kind |-> "dict", val |-> d]

TransportError == [err |-> TRUE, status_code |-> 0, json |-> JsonInvalid]
Http(status, json) == [err |-> FALSE, status_code |-> status, json |-> json]

\* the endpoints of fetch_internships, in the order the code visits them
Endpoints == 1..4
InternshipEndpoints == 1..3
LinkedInEndpoint == 4

-----------------------------------------------------------------------------
(* fetch_internships *)

\* try_internship without the status test of line 62
try_internship_mutant(response) ==
    IF response.err \/ response.json.kind = "invalid"
    THEN [raised |-> TRUE, records |-> <<>>]
    ELSE IF response.json.kind = "list"
         THEN [raised |-> FALSE,
               records |-> [i \in 1..Len(response.json.val) |->
                   setitem(response.json.val[i], "source", sInternshipAPI)]]
         ELSE [raised |-> FALSE, records |-> <<>>]

\* lines 61-69: the body of the try of one internship endpoint; requests.get raises on a
\* transport error and response.json() on a body that is not JSON
try_internship(response) ==
    IF response.err THEN [raised |-> TRUE, records |-> <<>>]
    ELSE IF response.status_code = 200
         THEN IF response.json.kind = "invalid" THEN [raised |-> TRUE, records |-> <<>>]
              ELSE IF response.json.kind = "list"
                   THEN [raised |-> FALSE,
                         records |-> [i \in 1..Len(response.json.val) |->
                             setitem(response.json.val[i], "source", sInternshipAPI)]]
                   ELSE [raised |-> FALSE, records |-> <<>>]
         ELSE [raised |-> FALSE, records |-> <<>>]

\* lines 60-72: the try with its except Exception: continue
internship_records(response) ==
    IF try_internship(response).raised
    THEN [raised |-> FALSE, records |-> <<>>]
    ELSE try_internship(response)

\* lines 87-95
transform_linkedin(job) ==
    [title |-> get(job, "title", <<>>),
     companyName |-> get(job, "company_name", <<>>),
     location |-> get(job, "location", <<>>),
     url |-> get(job, "apply_url", <<>>),
     postedDate |-> get(job, "posted_date", <<>>),
     source |-> sLinkedIn,
     description |-> IF Truthy(get(job, "description", None))
                     THEN slice(get(job, "description", <<>>), 200) \o sEllipsis
                     ELSE None]

\* lines 76-97: the body of the try of the LinkedIn endpoint
try_linkedin(response) ==
    IF response.err THEN [raised |-> TRUE, records |-> <<>>]
    ELSE IF response.status_code = 200
         THEN IF response.json.kind = "invalid" THEN [raised |-> TRUE, records |-> <<>>]
              ELSE IF response.json.kind = "list"
                   THEN [raised |-> FALSE,
                         records |-> [i \in 1..Len(response.json.val) |->
                             transform_linkedin(response.json.val[i])]]
                   ELSE [raised |-> FALSE, records |-> <<>>]
         ELSE [raised |-> FALSE, records |-> <<>>]

\* lines 75-99: the try with its except Exception
linkedin_records(response) ==
    IF try_linkedin(response).raised
    THEN [raised |-> FALSE, records |-> <<>>]
    ELSE try_linkedin(response)

\* lines 36-99: the concatenation, in the order 7-day, 30-day, 90-day, LinkedIn
all_internships(resp) ==
    internship_records(resp[1]).records \o internship_records(resp[2]).records
        \o internship_records(resp[3]).records \o linkedin_records(resp[4]).records

\* line 106 without the test against seen_urls
first_seen_mutant(url, seen_urls) == Truthy(url)

\* line 106, with the url a dict without the key gives as None
first_seen(url, seen_urls) == Truthy(url) /\ url \notin seen_urls

\* lines 102-108.  When the loop reaches all[i], seen_urls holds the urls that the
\* earlier turns added (line 108): a url is added the first time a record carries it,
\* so these are the urls of all[1..i-1] that pass line 106 against an empty set.
remove_duplicates(all) ==
    LET n == Len(all)
        url == [i \in 1..n |-> get(all[i], "url", None)]
        seen_urls == [i \in 1..n |-> {url[j] : j \in {k \in 1..(i - 1) : first_seen(url[k], {})}}]
        kept == {i \in 1..n : first_seen(url[i], seen_urls[i])}
        before == [i \in 1..n |-> Cardinality({j \in kept : j < i})]
    IN  [p \in 1..Cardinality(kept) |-> all[CHOOSE i \in kept : before[i] = p - 1]]

\* lines 34-114: an exception that a source's except clause did not catch leaves the function
fetch_internships(resp) ==
    IF \/ \E e \in InternshipEndpoints : internship_records(resp[e]).raised
       \/ linkedin_records(resp[LinkedInEndpoint]).raised
    THEN [raised |-> TRUE, value |-> <<>>]
    ELSE [raised |-> FALSE,
          value |-> LET unique_internships == remove_duplicates(all_internships(resp))
                    IN  sort_desc(unique_internships, posted_keys(unique_internships))]

-----------------------------------------------------------------------------
(* format_internship_embed, lines 116-162.  The result is the list of      *)
(* embeds, or raised when data[:limit] holds a record whose locations list *)
(* is empty (the [0] of line 128 raises IndexError).                       *)

company_of(internship, default) ==
    get(internship, "companyName",
        get(internship, "company_name", get(internship, "company", default)))

\* line 128
location_raises(internship) ==
    "locations" \in DOMAIN internship /\ Len(internship["locations"]) = 0

\* lines 126-131, 135-158
embed_of(internship) ==
    [job_title |-> get(internship, "title", sNoTitle),
     company_name |-> company_of(internship, sUnknownCompany),
     url |-> get(internship, "url", None),
     location |-> IF "locations" \in DOMAIN internship
                  THEN internship["locations"][1]
                  ELSE get(internship, "location", sLocationNotSpecified),
     posted_date |-> get(internship, "postedDate",
                         get(internship, "posted_date", sDateNotSpecified)),
     source |-> get(internship, "source", sUnknownSource),
     description |-> IF Truthy(get(internship, "description", None))
                     THEN slice(get(internship, "description", <<>>), 200) \o sEllipsis
                     ELSE None]

\* line 134
has_title_or_company(internship) ==
    get(internship, "title", sNoTitle) # sNoTitle
        \/ company_of(internship, sUnknownCompany) # sUnknownCompany

embeds_from(data) ==
    LET kept == SelectSeq(data, has_title_or_company)
    IN  [i \in 1..Len(kept) |-> embed_of(kept[i])]

\* format_internship_embed without the slice of line 121
format_internship_embed_mutant(data, limit) ==
    IF \E i \in 1..Len(data) : location_raises(data[i])
    THEN [raised |-> TRUE, embeds |-> <<>>]
    ELSE [raised |-> FALSE, embeds |-> embeds_from(data)]

\* lines 116-162
format_internship_embed(data, limit) ==
    LET shown == slice(data, limit)
    IN  IF \E i \in 1..Len(shown) : location_raises(shown[i])
        THEN [raised |-> TRUE, embeds |-> <<>>]
        ELSE [raised |-> FALSE, embeds |-> embeds_from(shown)]

-----------------------------------------------------------------------------
(* search_internships, lines 164-196 *)

\* matches_query without the test of the locations list (lines 189-192)
matches_query_mutant(internship, query) ==
    \/ contains(query, lower(company_of(internship, <<>>)))
    \/ contains(query, lower(get(internship, "title", <<>>)))
    \/ contains(query, lower(get(internship, "location", <<>>)))

\* lines 171-192: the four tests, the first that holds ends the iteration
matches_query(internship, query) ==
    IF contains(query, lower(company_of(internship, <<>>))) THEN TRUE
    ELSE IF contains(query, lower(get(internship, "title", <<>>))) THEN TRUE
    ELSE IF contains(query, lower(get(internship, "location", <<>>))) THEN TRUE
    ELSE IF "locations" \in DOMAIN internship
         THEN \E j \in 1..Len(internship["locations"]) :
                  contains(query, lower(internship["locations"][j]))
         ELSE FALSE

matches_from(data, query) ==
    SelectSeq(data, LAMBDA internship : matches_query(internship, query))

search_internships(data, query) ==
    LET matches == matches_from(data, lower(query))
    IN  sort_desc(matches, posted_keys(matches))

-----------------------------------------------------------------------------
(* fetch_linkedin_jobs, lines 390-480.  The local variable jobs is bound   *)
(* only by line 436; a path that reaches the return of line 480 without    *)
(* passing line 436 raises UnboundLocalError.                              *)

\* lines 444-453
transform_job(job) ==
    [title |-> get(job, "title", <<>>),
     companyName |-> get(get(job, "company", EmptyDict), "name", <<>>),
     location |-> get(job, "location", <<>>),
     url |-> get(job, "url", <<>>),
     postedDate |-> get(job, "postAt", <<>>),
     source |-> sLinkedIn,
     description |-> get(job, "description", <<>>)]

\* lines 442-460
jobs_from(jobs_data) ==
    SelectSeq([i \in 1..Len(jobs_data) |-> transform_job(jobs_data[i])],
              LAMBDA transformed_job :
                  Truthy(transformed_job.title) \/ Truthy(transformed_job.companyName))

fetch_linkedin_jobs(has_key, response, limit) ==
    IF ~has_key THEN [raised |-> FALSE, jobs |-> <<>>]
    ELSE IF response.err THEN [raised |-> TRUE, jobs |-> <<>>]
    ELSE IF response.status_code # 200 THEN [raised |-> TRUE, jobs |-> <<>>]
    ELSE IF response.json.kind = "invalid" THEN [raised |-> TRUE, jobs |-> <<>>]
    ELSE IF response.json.kind = "dict"
         THEN [raised |-> FALSE,
               jobs |-> jobs_from(slice(get(response.json.val, "data", <<>>), limit))]
         ELSE [raised |-> FALSE, jobs |-> <<>>]

-----------------------------------------------------------------------------
(* The commands' argument parsing *)

\* max(1, limit): the bound of 50 left out
clamp_limit_mutant(limit) == IF limit > 1 THEN limit ELSE 1

\* lines 260, 304, 351, 545: max(1, min(limit, 50))
clamp_limit(limit) ==
    LET m == IF limit < 50 THEN limit ELSE 50
    IN  IF m > 1 THEN m ELSE 1

\* lines 298-304 of search: parts[-1] raises IndexError when query holds no word
parse_search(query, limit) ==
    LET parts == split(query)
    IN  IF Len(parts) = 0 THEN [raised |-> TRUE, query |-> query, limit |-> limit]
        ELSE IF isdigit(parts[Len(parts)])
             THEN [raised |-> FALSE,
                   query |-> join(SubSeq(parts, 1, Len(parts) - 1)),
                   limit |-> clamp_limit(int(parts[Len(parts)]))]
             ELSE [raised |-> FALSE, query |-> query, limit |-> clamp_limit(limit)]

\* lines 513-519, in the dict's order
time_keywords ==
    <<
      <<<<"p", "a", "s", "t", "2", "4", "h">>,
        <<<<"2", "4", "h">>,
          <<"2", "4", "h", "o", "u", "r", "s">>,
          <<"t", "o", "d", "a", "y">>,
          <<"p", "a", "s", "t", "2", "4", "h">>>>>>,
      <<<<"p", "a", "s", "t", "7", "2", "h">>,
        <<<<"7", "2", "h">>,
          <<"7", "2", "h", "o", "u", "r", "s">>,
          <<"3", "d", "a", "y", "s">>,
          <<"p", "a", "s", "t", "7", "2", "h">>>>>>,
      <<<<"p", "a", "s", "t", "W", "e", "e", "k">>,
        <<<<"w", "e", "e", "k">>,
          <<"7", "d", "a", "y", "s">>,
          <<"p", "a", "s", "t", "w", "e", "e", "k">>>>>>,
      <<<<"p", "a", "s", "t", "M", "o", "n", "t", "h">>,
        <<<<"m", "o", "n", "t", "h">>,
          <<"3", "0", "d", "a", "y", "s">>,
          <<"p", "a", "s", "t", "m", "o", "n", "t", "h">>>>>>,
      <<<<"a", "n", "y", "T", "i", "m", "e">>,
        <<<<"a", "n", "y">>,
          <<"a", "l", "l">>,
          <<"a", "n", "y", "t", "i", "m", "e">>>>>>
    >>

\* line 530
location_indicators == {<<"i", "n">>, <<"a", "t">>, <<"n", "e", "a", "r">>, <<"a", "r", "o", "u", "n", "d">>, <<"w", "i", "t", "h", "i", "n">>}

sPast24h == <<"p", "a", "s", "t", "2", "4", "h">>

\* lines 521-525: the index of the first time key whose list holds the word, or 0
time_key_index(word) ==
    IF \E k \in 1..Len(time_keywords) :
           \E j \in 1..Len(time_keywords[k][2]) : time_keywords[k][2][j] = word
    THEN CHOOSE k \in 1..Len(time_keywords) :
             /\ \E j \in 1..Len(time_keywords[k][2]) : time_keywords[k][2][j] = word
             /\ \A h \in 1..(k - 1) :
                    \A j \in 1..Len(time_keywords[h][2]) : time_keywords[h][2][j] # word
    ELSE 0

\* lines 531-535: the index of the first location indicator that has a successor, or 0
indicator_index(parts) ==
    LET hits == {i \in 1..(Len(parts) - 1) : lower(parts[i]) \in location_indicators}
    IN  IF hits = {} THEN 0 ELSE CHOOSE i \in hits : \A h \in hits : i <= h

\* lines 528-542
keywords_and_location(parts) ==
    IF Len(parts) >= 2
    THEN LET i == indicator_index(parts)
         IN  IF i # 0
             THEN [keywords |-> join(SubSeq(parts, 1, i - 1)),
                   location |-> join(SubSeq(parts, i + 1, Len(parts)))]
             ELSE [keywords |-> join(SubSeq(parts, 1, Len(parts) - 1)),
                   location |-> parts[Len(parts)]]
    ELSE [keywords |-> join(parts), location |-> None]

\* lines 499-545 of linkedin_jobs; query is None when the command has no argument
parse_linkedin(query) ==
    IF ~Truthy(query)
    THEN [raised |-> FALSE, keywords |-> None, location |-> None,
          limit |-> clamp_limit(25), time_range |-> sPast24h]
    ELSE LET parts0 == split(query)
             failed == [raised |-> TRUE, keywords |-> None, location |-> None,
                        limit |-> 25, time_range |-> sPast24h]
         IN  IF Len(parts0) = 0 THEN failed
             ELSE LET numeric == isdigit(parts0[Len(parts0)])
                      limit == IF numeric THEN int(parts0[Len(parts0)]) ELSE 25
                      parts1 == IF numeric THEN SubSeq(parts0, 1, Len(parts0) - 1)
                                ELSE parts0
                  IN  IF Len(parts1) = 0 THEN failed
                      ELSE LET k == time_key_index(lower(parts1[Len(parts1)]))
                               time_range == IF k # 0 THEN time_keywords[k][1]
                                             ELSE sPast24h
                               parts == IF k # 0
                                        THEN SubSeq(parts1, 1, Len(parts1) - 1)
                                        ELSE parts1
                               kl == keywords_and_location(parts)
                           IN  [raised |-> FALSE, keywords |-> kl.keywords,
                                location |-> kl.location,
                                limit |-> clamp_limit(limit),
                                time_range |-> time_range]

-----------------------------------------------------------------------------
(* The handler coroutines *)

\* the default of the limit parameters (lines 116, 252, 288, 343, 502)
DefaultLimit == 25

\* the seconds of asyncio.sleep (lines 235, 280, 333, 381, 575)
PacingDelay == 1

Commands == {"internships", "search", "recent", "linkedin"}

NewTask(kind, arg) ==
    [kind |-> kind, arg |-> arg, pc |-> "start", limit |-> DefaultLimit,
     query |-> <<>>, fetched |-> <<>>, shown |-> <<>>, embeds |-> <<>>, i |-> 1,
     log |-> <<>>, caught |-> FALSE]

\* how many command handlers can be under way at once
MaxCommands == 1

\* the greatest number of loop tasks the model can hold
MaxLoops == 2

\* tasks[0] is the current (or last) iteration of the loop task that the first
\* check_internships.start() launched, tasks[-1] that of a task launched by a second
\* start(), and so on; tasks[1..MaxCommands] are the command handlers under way (or
\* the last ones finished)
LoopSlot == 0
LoopSlots == (LoopSlot - MaxLoops + 1)..LoopSlot
CommandSlots == 1..MaxCommands
Slots == LoopSlots \cup CommandSlots

IdleTask == [NewTask("none", [limit |-> DefaultLimit, query |-> None]) EXCEPT !.pc = "idle"]

-----------------------------------------------------------------------------
(* The state outside a specification's own part *)

EnvAll == [DISCORD_TOKEN |-> TRUE, CHANNEL_ID |-> TRUE, RAPIDAPI_KEY |-> TRUE]

NoCall == [fn |-> "none"]
NoRet == [fn |-> "none", raised |-> FALSE, value |-> <<>>]

QuietWorld == [e \in Endpoints |-> TransportError]

BotIdle ==
    /\ env = EnvAll
    /\ process = "init"
    /\ stdout = <<>>
    /\ loop_running = FALSE /\ loops = 0
    /\ ready_count = 0
    /\ tasks = [id \in Slots |-> IdleTask]

RateIdle ==
    /\ clock = 0
    /\ limiter = [f \in {"fetch_internships", "fetch_linkedin_jobs"} |->
                     [last_reset |-> 0, num_calls |-> 0]]
    /\ started = EmptyDict

-----------------------------------------------------------------------------
(* fetch_internships as a function of what the four endpoints answer *)

\* raw records of the internship endpoints
rawAcme == [title |-> sIntern, companyName |-> sAcme, url |-> sUrl1,
            postedDate |-> sDate2, location |-> sBoston]
rawGlobex == [title |-> sDataIntern, companyName |-> sGlobex, url |-> sUrl2,
              postedDate |-> sDate1, location |-> sRemote]
\* the url of rawAcme under another title and a later date
rawAcmeAgain == [title |-> sDataIntern, companyName |-> sAcme, url |-> sUrl1,
                 postedDate |-> sDate3, location |-> sRemote]
rawNoUrl == [title |-> sIntern, companyName |-> sGlobex, postedDate |-> sDate3]
rawOnlyInError == [title |-> sIntern, companyName |-> sGlobex, url |-> sUrl4,
                   postedDate |-> sDate3]

\* raw records of the LinkedIn endpoint of fetch_internships
liAcme == [title |-> sIntern, company_name |-> sGlobex, apply_url |-> sUrl1,
           posted_date |-> sDate3, description |-> sDataIntern]
liGlobex == [title |-> sIntern, company_name |-> sGlobex, apply_url |-> sUrl3,
             posted_date |-> sDate1]
liNoUrl == [title |-> sDataIntern, company_name |-> sAcme, posted_date |-> sDate2]

InternshipAnswers ==
    {TransportError,
     Http(500, JsonList(<<rawOnlyInError>>)),
     Http(200, JsonInvalid),
     Http(200, JsonDict(EmptyDict)),
     Http(200, JsonList(<<rawAcme, rawGlobex>>)),
     Http(200, JsonList(<<rawAcmeAgain, rawNoUrl>>))}

LinkedInAnswers ==
    {TransportError,
     Http(500, JsonList(<<liGlobex>>)),
     Http(200, JsonInvalid),
     Http(200, JsonList(<<liAcme, liGlobex>>)),
     Http(200, JsonList(<<liNoUrl, liAcme>>))}

FetchWorlds ==
    {w \in [Endpoints -> InternshipAnswers \cup LinkedInAnswers] :
        /\ \A e \in InternshipEndpoints : w[e] \in InternshipAnswers
        /\ w[LinkedInEndpoint] \in LinkedInAnswers}

InitFetch ==
    /\ responses \in FetchWorlds
    /\ linkedin_response = TransportError
    /\ call = [fn |-> "fetch_internships"]
    /\ ret = NoRet
    /\ BotIdle
    /\ RateIdle

CallFetchInternships ==
    /\ call.fn = "fetch_internships"
    /\ ret.fn = "none"
    /\ ret' = [fn |-> "fetch_internships",
               raised |-> fetch_internships(responses).raised,
               value |-> fetch_internships(responses).value]
    /\ UNCHANGED <<call, botVars, rateVars>>

NextFetch == CallFetchInternships

SpecFetch == InitFetch /\ [][NextFetch]_vars

\* a source fails: transport error, non-200 status, or a body that is not JSON
source_fails(response) ==
    response.err \/ response.status_code # 200 \/ response.json.kind = "invalid"

\* the records a healthy source sent, in the common shape
healthy_records(e) ==
    IF source_fails(responses[e]) \/ responses[e].json.kind # "list" THEN <<>>
    ELSE [i \in 1..Len(responses[e].json.val) |->
             IF e \in InternshipEndpoints
             THEN setitem(responses[e].json.val[i], "source", sInternshipAPI)
             ELSE transform_linkedin(responses[e].json.val[i])]

url_of(record) == get(record, "url", None)

\* C3, as amended: whatever subset of the four sources fails (non-200 status,
\* transport error, malformed JSON), no exception leaves fetch_internships, every
\* record of the result is a record of a healthy source (the failing sources
\* contribute nothing), and every non-empty URL carried by a record of a healthy
\* source is the URL of a record of the result.
C3_FailingSourcesIsolated ==
    ret.fn = "fetch_internships" =>
        /\ ~ret.raised
        /\ \A i \in 1..Len(ret.value) :
               \E e \in Endpoints :
                   /\ ~source_fails(responses[e])
                   /\ \E j \in 1..Len(healthy_records(e)) :
                          healthy_records(e)[j] = ret.value[i]
        /\ \A e \in Endpoints : \A j \in 1..Len(healthy_records(e)) :
               Truthy(url_of(healthy_records(e)[j])) =>
                   \E i \in 1..Len(ret.value) :
                       url_of(ret.value[i]) = url_of(healthy_records(e)[j])

\* C3 witness: two sources failed in different ways, one of them with records in its
\* body, and the result holds the records of a healthy one
C3_Witness ==
    /\ ret.fn = "fetch_internships"
    /\ \E e \in Endpoints : responses[e].err
    /\ \E e \in Endpoints :
           responses[e].status_code = 500 /\ Len(responses[e].json.val) > 0
    /\ \E e \in Endpoints : ~source_fails(responses[e]) /\ Len(healthy_records(e)) > 0
    /\ Len(ret.value) > 0

\* C3 as stated: the result contains the (deduplicated) records of every healthy
\* source, that is, each record of a healthy source or a record with its URL.
C3_Original ==
    ret.fn = "fetch_internships" =>
        /\ ~ret.raised
        /\ \A e \in Endpoints : \A j \in 1..Len(healthy_records(e)) :
               \E i \in 1..Len(ret.value) :
                   url_of(ret.value[i]) = url_of(healthy_records(e)[j])

\* the least index of all_internships whose record carries the url
first_index(all, url) ==
    CHOOSE k \in 1..Len(all) :
        /\ url_of(all[k]) = url
        /\ \A h \in 1..(k - 1) : url_of(all[h]) # url

\* C9: the result of fetch_internships never holds two records with the same URL,
\* and for every URL of the concatenation (7-day, 30-day, 90-day, LinkedIn) the
\* record emitted is the first one carrying it.
C9_FirstSeenWins ==
    ret.fn = "fetch_internships" =>
        LET all == all_internships(responses)
        IN  /\ \A i, j \in 1..Len(ret.value) :
                   i # j => url_of(ret.value[i]) # url_of(ret.value[j])
            /\ \A k \in 1..Len(all) :
                   Truthy(url_of(all[k])) =>
                       \E i \in 1..Len(ret.value) :
                           ret.value[i] = all[first_index(all, url_of(all[k]))]
            /\ \A i \in 1..Len(ret.value) :
                   ret.value[i] = all[first_index(all, url_of(ret.value[i]))]

\* C9 witness: two different sources sent different records with one URL, and the
\* result holds the earlier one
C9_Witness ==
    /\ ret.fn = "fetch_internships"
    /\ LET all == all_internships(responses)
       IN  \E k, h \in 1..Len(all) :
               /\ k < h
               /\ url_of(all[k]) = url_of(all[h])
               /\ Truthy(url_of(all[k]))
               /\ all[k].source # all[h].source
               /\ k = first_index(all, url_of(all[k]))
               /\ \E i \in 1..Len(ret.value) : ret.value[i] = all[k]

-----------------------------------------------------------------------------
(* fetch_linkedin_jobs as a function of the key, the answer and the limit *)

sPostAt == <<"2", "0", "2", "4", "-", "0", "3">>

jobAcme == [title |-> sIntern, company |-> [name |-> sAcme], location |-> sBoston,
            url |-> sUrl1, postAt |-> sPostAt, description |-> sDataIntern]
jobGlobex == [title |-> sDataIntern, company |-> [name |-> sGlobex], url |-> sUrl2]
jobBlank == [url |-> sUrl3, postAt |-> sPostAt]

SearchAnswers ==
    {TransportError,
     Http(500, JsonDict([data |-> <<jobAcme>>])),
     Http(200, JsonInvalid),
     Http(200, JsonOther),
     Http(200, JsonList(<<jobAcme>>)),
     Http(200, JsonDict(EmptyDict)),
     Http(200, JsonDict([data |-> <<jobAcme, jobGlobex>>])),
     Http(200, JsonDict([data |-> <<jobBlank, jobGlobex, jobAcme>>]))}

LinkedInLimits == {1, 2, 3, 25}

InitLinkedIn ==
    /\ env \in {e \in [{"DISCORD_TOKEN", "CHANNEL_ID", "RAPIDAPI_KEY"} -> BOOLEAN] :
                   e["DISCORD_TOKEN"] /\ e["CHANNEL_ID"]}
    /\ linkedin_response \in SearchAnswers
    /\ call \in {[fn |-> "fetch_linkedin_jobs", limit |-> n] : n \in LinkedInLimits}
    /\ ret = NoRet
    /\ responses = QuietWorld
    /\ process = "init" /\ stdout = <<>> /\ loop_running = FALSE /\ loops = 0
    /\ ready_count = 0 /\ tasks = [id \in Slots |-> IdleTask]
    /\ RateIdle

CallFetchLinkedInJobs ==
    /\ call.fn = "fetch_linkedin_jobs"
    /\ ret.fn = "none"
    /\ LET r == fetch_linkedin_jobs(env["RAPIDAPI_KEY"], linkedin_response, call.limit)
       IN  ret' = [fn |-> "fetch_linkedin_jobs", raised |-> r.raised, value |-> r.jobs]
    /\ UNCHANGED <<call, botVars, rateVars>>

NextLinkedIn == CallFetchLinkedInJobs

SpecLinkedIn == InitLinkedIn /\ [][NextLinkedIn]_vars

\* C4: whenever the LinkedIn search request ends in a network error, a non-200
\* status, malformed JSON or a JSON body that is not an object, fetch_linkedin_jobs
\* returns an empty list and raises no exception.
C4_Original ==
    (/\ ret.fn = "fetch_linkedin_jobs"
     /\ \/ source_fails(linkedin_response)
        \/ linkedin_response.json.kind # "dict")
        => (~ret.raised /\ ret.value = <<>>)

-----------------------------------------------------------------------------
(* The linkedin command's argument parsing as a function of the query *)

ExampleQuery == <<"\"", "s", "o", "f", "t", "w", "a", "r", "e", " ", "e", "n", "g", "i", "n", "e", "e", "r", "\"", " ", "b", "o", "s", "t", "o", "n", " ", "2", "0", " ", "w", "e", "e", "k">>

ParseWords == {<<"\"", "s", "o", "f", "t", "w", "a", "r", "e">>,
               <<"e", "n", "g", "i", "n", "e", "e", "r", "\"">>,
               <<"b", "o", "s", "t", "o", "n">>,
               <<"2", "0">>,
               <<"w", "e", "e", "k">>,
               <<"i", "n">>}

MaxWords == 3

RECURSIVE WordLists(_)
WordLists(n) ==
    IF n = 0 THEN {<<>>}
    ELSE WordLists(n - 1)
             \cup {Append(ws, w) : ws \in {x \in WordLists(n - 1) : Len(x) = n - 1},
                                   w \in ParseWords}

ParseQueries == {join(ws) : ws \in WordLists(MaxWords) \ {<<>>}} \cup {ExampleQuery, None}

InitParse ==
    /\ call \in {[fn |-> "parse_linkedin", query |-> q] : q \in ParseQueries}
    /\ ret = NoRet
    /\ responses = QuietWorld
    /\ linkedin_response = TransportError
    /\ BotIdle
    /\ RateIdle

CallParseLinkedIn ==
    /\ call.fn = "parse_linkedin"
    /\ ret.fn = "none"
    /\ LET r == parse_linkedin(call.query)
       IN  ret' = [fn |-> "parse_linkedin", raised |-> r.raised,
                   value |-> [keywords |-> r.keywords, location |-> r.location,
                              limit |-> r.limit, time_range |-> r.time_range]]
    /\ UNCHANGED <<call, botVars, rateVars>>

NextParse == CallParseLinkedIn

SpecParse == InitParse /\ [][NextParse]_vars

\* C6: for the input "software engineer" boston 20 week the parser yields
\* keywords "software engineer", location "boston", limit 20 and time range pastWeek.
C6_Original ==
    (ret.fn = "parse_linkedin" /\ call.query = ExampleQuery)
        => /\ ~ret.raised
           /\ ret.value = [keywords |-> <<"s", "o", "f", "t", "w", "a", "r", "e", " ", "e", "n", "g", "i", "n", "e", "e", "r">>,
                           location |-> <<"b", "o", "s", "t", "o", "n">>,
                           limit |-> 20,
                           time_range |-> <<"p", "a", "s", "t", "W", "e", "e", "k">>]

-----------------------------------------------------------------------------
(* search_internships as a function of the records and the query *)

recAcme == [companyName |-> sAcme, title |-> sIntern, location |-> sBoston,
            postedDate |-> sDate2]
recGlobex == [company_name |-> sGlobex, title |-> sDataIntern,
              locations |-> <<sRemote, sBoston>>, postedDate |-> sDate1]
recRemote == [company |-> sAcme, title |-> sRemoteIntern, location |-> sRemote,
              posted_date |-> sDate3]
recBare == [title |-> sDataIntern]

SearchRecords == {recAcme, recGlobex, recRemote, recBare}

SearchQueries == {<<>>, <<"a", "c", "m", "e">>, <<"A", "C", "M", "E">>, <<"I", "n", "t", "e", "r", "n">>, <<"b", "o", "s", "t", "o", "n">>, <<"r", "e", "m", "o", "t", "e">>, <<"R", "E", "M", "O", "T", "E">>, <<"a", " ", "i">>, <<"x", "y", "z">>}

MaxRecords == 2

RECURSIVE RecordLists(_)
RecordLists(n) ==
    IF n = 0 THEN {<<>>}
    ELSE RecordLists(n - 1)
             \cup {Append(rs, r) : rs \in {x \in RecordLists(n - 1) : Len(x) = n - 1},
                                   r \in SearchRecords}

InitSearch ==
    /\ call \in {[fn |-> "search_internships", data |-> d, query |-> q] :
                    d \in RecordLists(MaxRecords), q \in SearchQueries}
    /\ ret = NoRet
    /\ responses = QuietWorld
    /\ linkedin_response = TransportError
    /\ BotIdle
    /\ RateIdle

CallSearchInternships ==
    /\ call.fn = "search_internships"
    /\ ret.fn = "none"
    /\ ret' = [fn |-> "search_internships", raised |-> FALSE,
               value |-> search_internships(call.data, call.query)]
    /\ UNCHANGED <<call, botVars, rateVars>>

NextSearch == CallSearchInternships

SpecSearch == InitSearch /\ [][NextSearch]_vars

\* a and b are equal up to the case of their letters
same_ignoring_case(a, b) ==
    Len(a) = Len(b) /\ \A i \in 1..Len(a) : lower_char(a[i]) = lower_char(b[i])

\* the query occurs in the text, case ignored
occurs_in(query, text) ==
    \E i \in 0..(Len(text) - Len(query)) :
        same_ignoring_case(SubSeq(text, i + 1, i + Len(query)), query)

\* the record's company name: companyName, else company_name, else company
company_name_of(r) ==
    IF "companyName" \in DOMAIN r THEN r["companyName"]
    ELSE IF "company_name" \in DOMAIN r THEN r["company_name"]
    ELSE IF "company" \in DOMAIN r THEN r["company"]
    ELSE <<>>

fields_of(r) ==
    {company_name_of(r)}
        \cup (IF "title" \in DOMAIN r THEN {r["title"]} ELSE {})
        \cup (IF "location" \in DOMAIN r THEN {r["location"]} ELSE {})
        \cup (IF "locations" \in DOMAIN r
              THEN {r["locations"][j] : j \in 1..Len(r["locations"])} ELSE {})

count_in(list, r) == Cardinality({i \in 1..Len(list) : list[i] = r})

\* C10: search_internships returns exactly the input records one of whose company
\* name, title, location or locations entries contains the query, case ignored:
\* each such record as often as it is in the input, and no other record.
C10_ExactlyTheMatches ==
    ret.fn = "search_internships" =>
        \A r \in SearchRecords :
            count_in(ret.value, r) =
                IF \E f \in fields_of(r) : occurs_in(call.query, f)
                THEN count_in(call.data, r)
                ELSE 0

\* C10 witness: a query with capitals, a record that matches in two fields and is
\* returned once, and another input record that is left out
C10_Witness ==
    /\ ret.fn = "search_internships"
    /\ call.query # lower(call.query)
    /\ \E i \in 1..Len(call.data) :
           /\ Cardinality({f \in fields_of(call.data[i]) : occurs_in(call.query, f)}) >= 2
           /\ count_in(call.data, call.data[i]) = 1
           /\ count_in(ret.value, call.data[i]) = 1
    /\ \E i \in 1..Len(call.data) : count_in(ret.value, call.data[i]) = 0

-----------------------------------------------------------------------------
(* The rate limiter.  Lines 32-33 and 388-389 each evaluate                *)
(* limits(calls=CALLS_PER_MINUTE, period=ONE_MINUTE), so each of the two   *)
(* functions is wrapped by a RateLimitDecorator object of its own, with    *)
(* its own last_reset and num_calls.  The wrapper resets the count when    *)
(* the period has elapsed since last_reset, counts the call, and raises    *)
(* RateLimitException when the count exceeds the cap; sleep_and_retry      *)
(* catches it, sleeps (time.sleep, which holds the event loop) for the     *)
(* rest of the period and calls again.                                     *)

CALLS_PER_MINUTE == 30
ONE_MINUTE == 60

\* how far the clock moves in one step of time, and how far it runs
TickStep == 30
MaxClock == 90

\* which wrapped function each caller calls (lines 222, 266, 310, 357, 556)
Callers == {"check_internships", "internships", "search", "recent", "linkedin"}

callee(caller) == IF caller = "linkedin" THEN "fetch_linkedin_jobs" ELSE "fetch_internships"

\* the limiter object that guards function f
limiter_of(f) == f

period_remaining(l, now) == ONE_MINUTE - (now - l.last_reset)

\* the wrapper of limits up to its test of the count
counted(l, now) ==
    IF period_remaining(l, now) <= 0
    THEN [last_reset |-> now, num_calls |-> 1]
    ELSE [l EXCEPT !.num_calls = @ + 1]

\* the time at which sleep_and_retry lets the call through
admission_time(l, now) ==
    IF counted(l, now).num_calls > CALLS_PER_MINUTE
    THEN now + period_remaining(l, now)
    ELSE now

\* the limiter object once the call is through
admitted(l, now) ==
    IF counted(l, now).num_calls > CALLS_PER_MINUTE
    THEN counted(counted(l, now), admission_time(l, now))
    ELSE counted(l, now)

\* the admitted calls' start times of the last ONE_MINUTE seconds, with their number
record_start(log, at) ==
    LET kept == {t \in DOMAIN log : t > at - ONE_MINUTE} \cup {at}
    IN  [t \in kept |-> IF t = at THEN get(log, t, 0) + 1 ELSE log[t]]

RECURSIVE sum_over(_, _)
sum_over(log, ts) ==
    IF ts = {} THEN 0
    ELSE LET t == CHOOSE x \in ts : TRUE
         IN  log[t] + sum_over(log, ts \ {t})

\* the number of source-client calls started in the window of ONE_MINUTE seconds ending now
calls_in_window == sum_over(started, {t \in DOMAIN started : t > clock - ONE_MINUTE})

InitRate ==
    /\ RateIdle
    /\ call = NoCall
    /\ ret = NoRet
    /\ responses = QuietWorld
    /\ linkedin_response = TransportError
    /\ env = EnvAll
    /\ process = "running" /\ stdout = <<>> /\ loop_running = TRUE /\ loops = 1
    /\ ready_count = 1 /\ tasks = [id \in Slots |-> IdleTask]

\* a caller calls its wrapped function; the wrapper holds the thread until admission
SourceCall(caller) ==
    LET f == limiter_of(callee(caller))
        at == admission_time(limiter[f], clock)
    IN  /\ at <= MaxClock
        /\ clock' = at
        /\ limiter' = [limiter EXCEPT ![f] = admitted(limiter[f], clock)]
        /\ started' = record_start(started, at)
        /\ UNCHANGED <<botVars, fnVars>>

Tick ==
    /\ clock + TickStep <= MaxClock
    /\ clock' = clock + TickStep
    /\ UNCHANGED <<limiter, started, botVars, fnVars>>

NextRate == (\E caller \in Callers : SourceCall(caller)) \/ Tick

SpecRate == InitRate /\ [][NextRate]_vars

\* C2: the source-client calls (fetch_internships and fetch_linkedin_jobs together)
\* started within any one 60-second window never number more than 30.
C2_Original == calls_in_window <= CALLS_PER_MINUTE

-----------------------------------------------------------------------------
(* The bot: the __main__ block, on_ready, the loop check_internships and   *)
(* the four commands.  A handler is a coroutine; it runs without           *)
(* interruption from one await to the next, so each action below is the    *)
(* code of a handler up to and including the await it stops at.  What an   *)
(* await gives is the environment's choice: a send or a delete succeeds or *)
(* raises (discord.HTTPException).  A task's log is what it did at its     *)
(* awaits: <<"loading", limit>>, <<"delete", 0>>, <<"summary", n>> (the    *)
(* message that announces n cards), <<"card", embed>>, <<"sleep", 1>>,     *)
(* <<"notice", 0>> (a no-results text), <<"error", 0>> (the text of the    *)
(* except clause), <<"no_key", 0>> (the missing key text of line 496),     *)
(* <<"failed", 0>> (a send or delete that raised) and <<"error_failed", 0>>*)
(* (the send of the except clause raised).                                 *)

Logged(t, type, payload) == [t EXCEPT !.log = Append(@, <<type, payload>>)]

\* an exception reaches the handler's except clause: a command goes on to send the
\* error text (lines 285, 340, 386, 580), the loop prints and returns (line 242)
Raise(t) ==
    IF t.kind = "check_internships"
    THEN [t EXCEPT !.caught = TRUE, !.pc = "done"]
    ELSE [t EXCEPT !.caught = TRUE, !.pc = "except"]

\* await send(...) of a text message, after which the handler goes to pc
Send(t, type, payload, ok, pc) ==
    IF ok THEN [Logged(t, type, payload) EXCEPT !.pc = pc]
    ELSE Raise(Logged(t, "failed", 0))

\* lines 227-230, 272-275, 320-328, 368-376, 559-570: render, then send the summary
Summarise(t, list, ok) ==
    LET f == format_internship_embed(list, t.limit)
        u == [t EXCEPT !.shown = list, !.embeds = f.embeds, !.i = 1]
    IN  IF f.raised THEN Raise([t EXCEPT !.shown = list])
        ELSE Send(u, "summary", Len(f.embeds), ok,
                  IF Len(f.embeds) = 0 THEN "done" ELSE "cards")

\* from the fetched records to the first message about them
Render(t, ok) ==
    CASE t.kind = "check_internships" ->
            \* lines 224-239
            IF Len(t.fetched) > 0
            THEN Summarise(t, sort_desc(t.fetched, posted_date_keys(t.fetched)), ok)
            ELSE [t EXCEPT !.pc = "done"]
      [] t.kind = "internships" ->
            \* lines 271-282
            IF Len(t.fetched) > 0
            THEN Summarise(t, t.fetched, ok)
            ELSE Send(t, "notice", 0, ok, "done")
      [] t.kind = "search" ->
            \* lines 315-337
            IF Len(t.fetched) > 0
            THEN IF Len(search_internships(t.fetched, t.query)) > 0
                 THEN Summarise(t, search_internships(t.fetched, t.query), ok)
                 ELSE Send(t, "notice", 0, ok, "done")
            ELSE Send(t, "notice", 0, ok, "done")
      [] t.kind = "recent" ->
            \* lines 362-383
            IF Len(t.fetched) > 0
            THEN Summarise(t, slice(sort_desc(t.fetched, posted_date_keys(t.fetched)), t.limit), ok)
            ELSE Send(t, "notice", 0, ok, "done")
      [] t.kind = "linkedin" ->
            \* lines 558-577
            IF Len(t.fetched) > 0
            THEN Summarise(t, t.fetched, ok)
            ELSE Send(t, "notice", 0, ok, "done")

\* lines 222-230: the loop fetches, renders and sends the summary without an await between
Deliver(t, ok) ==
    LET r == fetch_internships(responses)
    IN  IF r.raised THEN Raise(t)
        ELSE Render([t EXCEPT !.fetched = r.value], ok)

\* a command handler from its entry to its first await
Start(t, ok) ==
    CASE t.kind \in {"internships", "recent"} ->
            \* lines 260-263, 351-354
            Send([t EXCEPT !.limit = clamp_limit(t.arg.limit)],
                 "loading", clamp_limit(t.arg.limit), ok, "fetch")
      [] t.kind = "search" ->
            \* lines 298-307
            LET p == parse_search(t.arg.query, DefaultLimit)
            IN  IF p.raised THEN Raise(t)
                ELSE Send([t EXCEPT !.limit = p.limit, !.query = p.query],
                          "loading", p.limit, ok, "fetch")
      [] t.kind = "linkedin" ->
            \* lines 495-553
            IF ~env["RAPIDAPI_KEY"] THEN Send(t, "no_key", 0, ok, "done")
            ELSE LET p == parse_linkedin(t.arg.query)
                 IN  IF p.raised THEN Raise(t)
                     ELSE Send([t EXCEPT !.limit = p.limit], "loading", p.limit, ok, "fetch")

\* a command handler from the fetch to its next await
Fetch(t, ok) ==
    IF t.kind = "linkedin"
    THEN \* lines 556-577: no await between the fetch and the first message
         LET r == fetch_linkedin_jobs(env["RAPIDAPI_KEY"], linkedin_response, t.limit)
         IN  IF r.raised THEN Raise(t)
             ELSE Render([t EXCEPT !.fetched = r.jobs], ok)
    ELSE \* lines 266-269, 310-313, 357-360: the fetch, then await loading_msg.delete()
         LET r == fetch_internships(responses)
         IN  IF r.raised THEN Raise(t)
             ELSE Send([t EXCEPT !.fetched = r.value], "delete", 0, ok, "render")

\* lines 234, 279, 332, 380, 574: await send(embed=embed)
Card(t, ok) == Send(t, "card", t.embeds[t.i], ok, "sleep")

\* the next embed or the end, without the delay
Pace_mutant(t) ==
    [t EXCEPT !.i = t.i + 1, !.pc = IF t.i + 1 > Len(t.embeds) THEN "done" ELSE "cards"]

\* lines 235, 280, 333, 381, 575: await asyncio.sleep(1), then the next embed or the end
Pace(t) ==
    [Logged(t, "sleep", PacingDelay) EXCEPT
        !.i = t.i + 1,
        !.pc = IF t.i + 1 > Len(t.embeds) THEN "done" ELSE "cards"]

\* lines 285, 340, 386, 580: the except clause's await ctx.send(...); when it raises,
\* the exception leaves the handler
Report(t, ok) ==
    IF ok THEN [Logged(t, "error", 0) EXCEPT !.pc = "done"]
    ELSE [Logged(t, "error_failed", 0) EXCEPT !.pc = "escaped"]

Active(t) == t.pc \notin {"idle", "done", "escaped"}

FreeSlots == {id \in CommandSlots : ~Active(tasks[id])}

\* lines 17-19
LoadMessages(e) ==
    <<IF e["DISCORD_TOKEN"] THEN "Discord Token loaded: Yes" ELSE "Discord Token loaded: No",
      IF e["CHANNEL_ID"] THEN "Channel ID loaded: Yes" ELSE "Channel ID loaded: No",
      IF e["RAPIDAPI_KEY"] THEN "RapidAPI Key loaded: Yes" ELSE "RapidAPI Key loaded: No">>

\* lines 586-594
Main ==
    /\ process = "init"
    /\ IF env["DISCORD_TOKEN"] /\ env["CHANNEL_ID"]
       THEN /\ stdout' = Append(stdout, "Starting bot...")
            /\ process' = "running"
       ELSE /\ stdout' = stdout
                \o (IF ~env["DISCORD_TOKEN"]
                    THEN <<"Please provide your Discord token in the .env file.">>
                    ELSE <<>>)
                \o (IF ~env["CHANNEL_ID"]
                    THEN <<"Please provide your channel ID in the .env file.">>
                    ELSE <<>>)
            /\ process' = "exited"
    /\ UNCHANGED <<env, responses, linkedin_response, loop_running, loops, ready_count, tasks,
                   fnVars, rateVars>>

\* on_ready fires at each (re)connection; the count stops at MaxReady
MaxReady == 2

\* lines 248-249 without the test of is_running()
start_if_not_running_mutant(running, launched) ==
    IF launched < MaxLoops THEN launched + 1 ELSE launched

\* lines 248-249: the number of launched loop tasks after on_ready
start_if_not_running(running, launched) ==
    IF ~running THEN launched + 1 ELSE launched

\* the slots of the loop tasks launched so far
LaunchedSlots == {id \in LoopSlots : LoopSlot - id < loops}

\* lines 245-249
on_ready ==
    /\ process = "running"
    /\ ready_count' = (IF ready_count < MaxReady THEN ready_count + 1 ELSE ready_count)
    /\ loop_running' = (IF ~loop_running THEN TRUE ELSE loop_running)
    /\ loops' = start_if_not_running(loop_running, loops)
    /\ UNCHANGED <<env, responses, linkedin_response, process, stdout, tasks,
                   fnVars, rateVars>>

\* lines 198-218: the loop starts an iteration when the one before has returned; the
\* channel is in the cache (get_channel) or has to be fetched (await fetch_channel)
check_internships(cached, ok) ==
    /\ process = "running"
    /\ loop_running
    /\ \E id \in LaunchedSlots :
           /\ ~Active(tasks[id])
           /\ LET t == NewTask("check_internships", [limit |-> DefaultLimit, query |-> None])
              IN  tasks' = [tasks EXCEPT ![id] =
                               IF ~env["CHANNEL_ID"] THEN [t EXCEPT !.pc = "done"]
                               ELSE IF cached THEN Deliver(t, ok)
                               ELSE [t EXCEPT !.pc = "resolve"]]
    /\ UNCHANGED <<env, responses, linkedin_response, process, stdout, loop_running,
                   loops, ready_count, fnVars, rateVars>>

\* lines 209-230: fetch_channel returns the channel or raises
ResolveChannel(found, ok) ==
    \E id \in LoopSlots :
        /\ tasks[id].pc = "resolve"
        /\ tasks' = [tasks EXCEPT ![id] =
                        IF found THEN Deliver(@, ok) ELSE [@ EXCEPT !.pc = "done"]]
        /\ UNCHANGED <<env, responses, linkedin_response, process, stdout, loop_running,
                       loops, ready_count, fnVars, rateVars>>

\* a command arrives and its handler runs to its first await
Invoke(kind, arg, ok) ==
    /\ process = "running"
    /\ ready_count > 0
    /\ FreeSlots # {}
    /\ LET id == CHOOSE x \in FreeSlots : \A y \in FreeSlots : x <= y
       IN  tasks' = [tasks EXCEPT ![id] = Start(NewTask(kind, arg), ok)]
    /\ UNCHANGED <<env, responses, linkedin_response, process, stdout, loop_running,
                   loops, ready_count, fnVars, rateVars>>

FetchStep(id, ok) ==
    /\ tasks[id].pc = "fetch"
    /\ tasks' = [tasks EXCEPT ![id] = Fetch(@, ok)]
    /\ UNCHANGED <<env, responses, linkedin_response, process, stdout, loop_running,
                   loops, ready_count, fnVars, rateVars>>

RenderStep(id, ok) ==
    /\ tasks[id].pc = "render"
    /\ tasks' = [tasks EXCEPT ![id] = Render(@, ok)]
    /\ UNCHANGED <<env, responses, linkedin_response, process, stdout, loop_running,
                   loops, ready_count, fnVars, rateVars>>

CardStep(id, ok) ==
    /\ tasks[id].pc = "cards"
    /\ tasks' = [tasks EXCEPT ![id] = Card(@, ok)]
    /\ UNCHANGED <<env, responses, linkedin_response, process, stdout, loop_running,
                   loops, ready_count, fnVars, rateVars>>

PaceStep(id) ==
    /\ tasks[id].pc = "sleep"
    /\ tasks' = [tasks EXCEPT ![id] = Pace(@)]
    /\ UNCHANGED <<env, responses, linkedin_response, process, stdout, loop_running,
                   loops, ready_count, fnVars, rateVars>>

ReportStep(id, ok) ==
    /\ tasks[id].pc = "except"
    /\ tasks' = [tasks EXCEPT ![id] = Report(@, ok)]
    /\ UNCHANGED <<env, responses, linkedin_response, process, stdout, loop_running,
                   loops, ready_count, fnVars, rateVars>>

-----------------------------------------------------------------------------
(* The bot's specification: the worlds it runs in and the commands it gets *)

rawEmptyLocations == [title |-> sIntern, companyName |-> sGlobex, url |-> sUrl2,
                      postedDate |-> sDate3, locations |-> <<>>]
rawUntitled == [url |-> sUrl4, postedDate |-> sDate1, location |-> sRemote]

\* records of two sources, one URL twice, one record without title and company
MixedWorld ==
    [e \in Endpoints |->
        CASE e = 1 -> Http(200, JsonList(<<rawAcme, rawUntitled>>))
          [] e = 2 -> Http(500, JsonList(<<rawOnlyInError>>))
          [] e = 3 -> TransportError
          [] e = 4 -> Http(200, JsonList(<<liAcme, liGlobex>>))]

\* a record whose locations list is empty
RaisingWorld ==
    [e \in Endpoints |->
        IF e = 1 THEN Http(200, JsonList(<<rawAcme, rawEmptyLocations>>)) ELSE TransportError]

\* one record, without title and company
UntitledWorld ==
    [e \in Endpoints |->
        IF e = 2 THEN Http(200, JsonList(<<rawUntitled>>)) ELSE Http(200, JsonInvalid)]

\* without the API key every endpoint refuses the request
Unauthorized == Http(401, JsonDict(EmptyDict))
UnauthorizedWorld == [e \in Endpoints |-> Unauthorized]

\* what the endpoints of fetch_internships and the search endpoint answer
BotWorlds ==
    {<<QuietWorld, Http(200, JsonDict(EmptyDict))>>,
     <<MixedWorld, Http(200, JsonDict([data |-> <<jobAcme, jobGlobex>>]))>>,
     <<RaisingWorld, TransportError>>,
     <<UntitledWorld, Http(200, JsonDict([data |-> <<jobBlank, jobAcme>>]))>>}

Environments == [{"DISCORD_TOKEN", "CHANNEL_ID", "RAPIDAPI_KEY"} -> BOOLEAN]

\* the arguments of the commands: a limit for internships and recent, the rest of the
\* message for search and linkedin
BotArgs(kind) ==
    CASE kind = "internships" -> {[limit |-> 500, query |-> None]}
      [] kind = "recent" -> {[limit |-> 0, query |-> None]}
      [] kind = "search" ->
            {[limit |-> DefaultLimit, query |-> q] :
                q \in {<<"I", "n", "t", "e", "r", "n", " ", "1">>, <<"x", "y", "z">>}}
      [] kind = "linkedin" ->
            {[limit |-> DefaultLimit, query |-> q] :
                q \in {None, <<"2", "0">>}}

Init ==
    /\ env \in Environments
    /\ IF env["RAPIDAPI_KEY"]
       THEN \E w \in BotWorlds : responses = w[1] /\ linkedin_response = w[2]
       ELSE responses = UnauthorizedWorld /\ linkedin_response = Unauthorized
    /\ process = "init"
    /\ stdout = LoadMessages(env)
    /\ loop_running = FALSE /\ loops = 0
    /\ ready_count = 0
    /\ tasks = [id \in Slots |-> IdleTask]
    /\ call = NoCall
    /\ ret = NoRet
    /\ RateIdle

Next ==
    \/ Main
    \/ on_ready
    \/ \E cached, ok \in BOOLEAN : check_internships(cached, ok)
    \/ \E kind \in Commands : \E arg \in BotArgs(kind) : \E ok \in BOOLEAN :
           Invoke(kind, arg, ok)
    \/ \E found, ok \in BOOLEAN : ResolveChannel(found, ok)
    \/ \E id \in Slots : \E ok \in BOOLEAN : FetchStep(id, ok)
    \/ \E id \in Slots : \E ok \in BOOLEAN : RenderStep(id, ok)
    \/ \E id \in Slots : \E ok \in BOOLEAN : CardStep(id, ok)
    \/ \E id \in Slots : PaceStep(id)
    \/ \E id \in Slots : \E ok \in BOOLEAN : ReportStep(id, ok)

Spec == Init /\ [][Next]_vars

-----------------------------------------------------------------------------
(* Claims about the bot *)

positions(log, type) == {k \in 1..Len(log) : log[k][1] = type}

\* the payloads of the log's entries of one type, in the log's order
payloads(log, type) ==
    LET entries == SelectSeq(log, LAMBDA entry : entry[1] = type)
    IN  [k \in 1..Len(entries) |-> entries[k][2]]

Deliveries == {id \in Slots : tasks[id].kind # "none"}

C5_CaughtAndReported ==
    \A id \in CommandSlots :
        LET t == tasks[id]
            errors == positions(t.log, "error")
        IN  /\ ~t.caught => errors = {}
            /\ (t.caught /\ t.pc = "done") => errors = {Len(t.log)}
            /\ t.pc = "escaped" =>
                   /\ t.caught
                   /\ errors = {}
                   /\ t.log[Len(t.log)] = <<"error_failed", 0>>
            /\ (t.caught /\ ~Active(t)) =>
                   /\ process = "running"
                   /\ loop_running
                   /\ Active(tasks[LoopSlot])
                          \/ ENABLED (\E cached, ok \in BOOLEAN : check_internships(cached, ok))
                   /\ ENABLED (\E kind \in Commands : \E arg \in BotArgs(kind) :
                                   Invoke(kind, arg, TRUE))

\* C5, the reported case: a linkedin handler whose fetch raised, and which sent the
\* error text
C5_Witness ==
    \E id \in CommandSlots :
        /\ tasks[id].kind = "linkedin"
        /\ tasks[id].caught
        /\ tasks[id].pc = "done"
        /\ positions(tasks[id].log, "loading") # {}
        /\ positions(tasks[id].log, "error") = {Len(tasks[id].log)}

\* C5 as stated: an exception raised while a command is handled never leaves the
\* handler and is surfaced as one error text.
C5_Original ==
    \A id \in CommandSlots :
        tasks[id].caught =>
            /\ tasks[id].pc # "escaped"
            /\ ~Active(tasks[id]) => Cardinality(positions(tasks[id].log, "error")) = 1

\* C8: if a required configuration value (token, channel identifier, API key) is
\* absent at startup, the bot is never started.
C8_Original ==
    (\E k \in DOMAIN env : ~env[k]) => process # "running"

-----------------------------------------------------------------------------
(* The commands one at a time, between two ticks of the loop, on a world   *)
(* with more records than the greatest limit                               *)

\* the number of records the endpoints hold
BigCount == 52

\* str(n) for n >= 0
RECURSIVE str(_)
str(n) == IF n < 10 THEN <<Digits[n + 1]>> ELSE str(n \div 10) \o <<Digits[(n % 10) + 1]>>

BigWorld ==
    [e \in Endpoints |->
        IF e = 1
        THEN Http(200, JsonList([i \in 1..BigCount |->
                 [title |-> sIntern, companyName |-> sAcme, url |-> <<"u">> \o str(i),
                  postedDate |-> sDate1]]))
        ELSE TransportError]

BigSearchAnswer ==
    Http(200, JsonDict([data |-> [i \in 1..BigCount |->
        [title |-> sIntern, company |-> [name |-> sAcme], url |-> <<"u">> \o str(i)]]]))

LimitArgs(kind) ==
    CASE kind \in {"internships", "recent"} ->
            {[limit |-> n, query |-> None] : n \in {-5, 0, 1, 50, 51, 500}}
      [] kind = "search" ->
            {[limit |-> DefaultLimit, query |-> q] :
                q \in {<<"i", "n", "t", "e", "r", "n">>, <<"i", "n", "t", "e", "r", "n", " ", "0">>, <<"i", "n", "t", "e", "r", "n", " ", "5", "0", "0">>, <<"i", "n", "t", "e", "r", "n", " ", "-", "5">>, <<"5", "1">>}}
      [] kind = "linkedin" ->
            {[limit |-> DefaultLimit, query |-> q] :
                q \in {None, <<"i", "n", "t", "e", "r", "n", " ", "0">>, <<"i", "n", "t", "e", "r", "n", " ", "5", "0", "0">>, <<"i", "n", "t", "e", "r", "n", " ", "-", "5">>, <<"5", "0", "0">>}}

InitLimit ==
    /\ env = EnvAll
    /\ responses = BigWorld
    /\ linkedin_response = BigSearchAnswer
    /\ process = "running"
    /\ stdout = Append(LoadMessages(env), "Starting bot...")
    /\ loop_running = TRUE /\ loops = 1
    /\ ready_count = 1
    /\ tasks = [id \in Slots |-> IdleTask]
    /\ call = NoCall
    /\ ret = NoRet
    /\ RateIdle

\* a command arrives while no handler is under way
InvokeAlone(kind, arg, ok) ==
    /\ \A id \in Slots : ~Active(tasks[id])
    /\ Invoke(kind, arg, ok)

NextLimit ==
    \/ \E kind \in Commands : \E arg \in LimitArgs(kind) : \E ok \in BOOLEAN :
           InvokeAlone(kind, arg, ok)
    \/ \E id \in Slots : \E ok \in BOOLEAN : FetchStep(id, ok)
    \/ \E id \in Slots : \E ok \in BOOLEAN : RenderStep(id, ok)
    \/ \E id \in Slots : \E ok \in BOOLEAN : CardStep(id, ok)
    \/ \E id \in Slots : PaceStep(id)
    \/ \E id \in Slots : \E ok \in BOOLEAN : ReportStep(id, ok)

SpecLimit == InitLimit /\ [][NextLimit]_vars

\* n brought into [1, 50]
into_1_50(n) == IF n < 1 THEN 1 ELSE IF n > 50 THEN 50 ELSE n

\* the last word of a command's text is a number
ends_in_number(query) ==
    query # None /\ Len(split(query)) > 0 /\ isdigit(split(query)[Len(split(query))])

last_number(query) == int(split(query)[Len(split(query))])

\* C7: for every limit given to internships, search, recent or linkedin (0, negative
\* values and values above 50 included) the limit used for rendering lies in
\* [1, 50] and is the given one brought into that range (500 becomes 50), and no
\* invocation renders or sends more than 50 cards.
C7_LimitClamped ==
    \A id \in CommandSlots :
        LET t == tasks[id]
        IN  t.kind \in Commands =>
                /\ t.limit \in 1..50
                /\ t.kind \in {"internships", "recent"} => t.limit = into_1_50(t.arg.limit)
                /\ (t.kind = "search" /\ ends_in_number(t.arg.query))
                       => t.limit = into_1_50(last_number(t.arg.query))
                /\ (t.kind = "linkedin" /\ ends_in_number(t.arg.query)
                        /\ Len(split(t.arg.query)) >= 2)
                       => t.limit = into_1_50(last_number(t.arg.query))
                /\ Len(t.embeds) <= 50
                /\ Cardinality(positions(t.log, "card")) <= 50

\* C7 witness: with more than 50 records fetched, an invocation of internships with
\* limit 500 has ended after 50 cards
C7_Witness ==
    \E id \in CommandSlots :
        /\ tasks[id].pc = "done" /\ ~tasks[id].caught
        /\ Len(tasks[id].fetched) > 50
        /\ tasks[id].kind = "internships" /\ tasks[id].arg.limit = 500
        /\ Cardinality(positions(tasks[id].log, "card")) = 50

-----------------------------------------------------------------------------
(* format_internship_embed as a function of the records and the limit *)

\* records with and without title and company, with a locations list and an empty one
FormatRecords == {recAcme, recGlobex, rawUntitled, rawEmptyLocations}

\* the greatest length of the record list
MaxShown == 3

RECURSIVE FormatLists(_)
FormatLists(n) ==
    IF n = 0 THEN {<<>>}
    ELSE FormatLists(n - 1)
             \cup {Append(rs, r) : rs \in {x \in FormatLists(n - 1) : Len(x) = n - 1},
                                   r \in FormatRecords}

\* the limits, from below 0 to above the greatest length
FormatLimits == (0 - 2)..(MaxShown + 1)

InitFormat ==
    /\ call \in {[fn |-> "format_internship_embed", data |-> d, limit |-> l] :
                    d \in FormatLists(MaxShown), l \in FormatLimits}
    /\ ret = NoRet
    /\ responses = QuietWorld
    /\ linkedin_response = TransportError
    /\ BotIdle
    /\ RateIdle

CallFormatInternshipEmbed ==
    /\ call.fn = "format_internship_embed"
    /\ ret.fn = "none"
    /\ LET f == format_internship_embed(call.data, call.limit)
       IN  ret' = [fn |-> "format_internship_embed", raised |-> f.raised, value |-> f.embeds]
    /\ UNCHANGED <<call, botVars, rateVars>>

NextFormat == CallFormatInternshipEmbed

SpecFormat == InitFormat /\ [][NextFormat]_vars

min(a, b) == IF a < b THEN a ELSE b

-----------------------------------------------------------------------------
(* Deliveries without results *)

\* the messages about results: the summary, the cards and the no-results notice (the
\* progress message of lines 263, 307, 354, 553 and its deletion are not among them)
result_messages(log) ==
    SelectSeq(log, LAMBDA entry : entry[1] \in {"summary", "card", "notice"})

\* the delivery ended without an exception
ended(t) == t.pc = "done" /\ ~t.caught

\* the handler got to its fetch and the fetch gave no record
fetched_nothing(t) ==
    ended(t) /\ Len(t.fetched) = 0 /\ t.log # <<>> /\ positions(t.log, "no_key") = {}

\* C12: when a fetch yields zero results a cycle of the loop sends no message and a
\* command sends only a no-results notice; and in no cycle or invocation is a
\* summary that announces zero cards sent.
C12_Original ==
    \A id \in Deliveries :
        LET t == tasks[id]
        IN  /\ (t.kind = "check_internships" /\ ended(t) /\ Len(t.fetched) = 0)
                   => t.log = <<>>
            /\ (t.kind \in Commands /\ fetched_nothing(t))
                   => result_messages(t.log) = <<(<<"notice", 0>>)>>
            /\ \A j \in positions(t.log, "summary") : t.log[j][2] > 0

\* C12, what the handlers do guarantee: without a fetched record the loop sends
\* nothing and a command sends the notice and neither summary nor card; a summary
\* is sent only after at least one record was fetched (for search: matched) and it
\* announces the number of cards rendered, which is 0 when every record handed to
\* the presenter lacks title and company.
C12_NoticeOrNothing ==
    \A id \in Deliveries :
        LET t == tasks[id]
        IN  /\ (t.kind = "check_internships" /\ ended(t) /\ Len(t.fetched) = 0)
                   => t.log = <<>>
            /\ (t.kind \in Commands /\ fetched_nothing(t))
                   => result_messages(t.log) = <<(<<"notice", 0>>)>>
            /\ \A j \in positions(t.log, "summary") :
                   /\ Len(t.shown) > 0
                   /\ t.log[j][2] = Len(t.embeds)
                   /\ t.log[j][2] = 0 => \A k \in 1..Len(t.shown) : ~has_title_or_company(t.shown[k])

\* C12, the empty summary: a cycle of the loop that fetched a record and sent a
\* summary announcing zero cards
C12_EmptySummary ==
    /\ tasks[LoopSlot].kind = "check_internships"
    /\ ended(tasks[LoopSlot])
    /\ Len(tasks[LoopSlot].fetched) > 0
    /\ tasks[LoopSlot].log = <<(<<"summary", 0>>)>>

-----------------------------------------------------------------------------
(* The loop task under repeated on_ready events *)

\* the loop iterations that are delivering (between their start and their return)
Delivering == {id \in LoopSlots : Active(tasks[id])}

\* C13: however many times on_ready fires, check_internships is started at most once
\* (is_running() holds exactly when the one task was launched), so at most one cycle of
\* the loop is delivering at any moment and no second loop task ever runs an iteration.
C13_LoopStartedOnce ==
    /\ loops <= 1
    /\ loop_running <=> loops = 1
    /\ Cardinality(Delivering) <= 1
    /\ \A id \in LoopSlots \ {LoopSlot} : tasks[id] = IdleTask

\* C13 witness: on_ready has fired MaxReady times, one loop task was launched and one
\* of its cycles is delivering cards
C13_Witness ==
    /\ ready_count = MaxReady
    /\ loops = 1
    /\ Delivering = {LoopSlot}
    /\ tasks[LoopSlot].pc = "sleep"

====
